---- MODULE Spec2Model ----
(***************************************************************************)
(* Dual-relay blind controller of homebridge-ewelink (src/index.js,        *)
(* "Blind Stuff").  One blind accessory, its context, the switches array   *)
(* of its device in devicesFromApi, the pending setTimeout/setInterval     *)
(* callbacks and the clock.  Times are in milliseconds.  The durations of  *)
(* the group configuration (seconds in the source) are kept in             *)
(* milliseconds too, so that fractional seconds need no real numbers:      *)
(* durationUp here is 1000 * accessory.context.durationUp.                 *)
(***************************************************************************)
EXTENDS Integers, Sequences, FiniteSets, Bags, TLC

VARIABLES
    context,    \* accessory.context of the blind
    switches,   \* devicesFromApi.get(deviceId).params.switches
    timers,     \* pending setTimeout callbacks and live setInterval loops
    now,        \* Date.now()
    config,     \* the group configuration copied into accessory.context
    emitted,    \* relay commands passed to updateDeviceStatus by the last step
    finalized,  \* setFinalBlindsState calls since the last start from rest
    lastOp,     \* the handler that ran last, its input and what it did
    events,     \* external events handled so far
    pure        \* stage of the codec run on its own, or of the provisioning

vars == <<context, switches, timers, now, config, emitted, finalized, lastOp, events, pure>>

(* ----------------------------- bounds --------------------------------- *)

\* last instant of the clock explored
MaxTime == 700
\* clock advance while no timer is pending
IdleStep == 100
\* number of external events (set requests, push events, status queries) explored
MaxEvents == 3
\* number of external events explored in the runs checked for progress
LiveEvents == 2
\* how far outside 0..100 a persisted lastPosition is explored
MaxOvershoot == 3

\* the estimator run on its own: longest time since the start of the motion
\* and the step of the clock, in ms
MaxElapsed == 60
EstimateStep == 5

\* external events in a run that follows the commands through the channel
ChanEvents == 2

\* set requests in a run of the planner that checks the socket
SockEvents == 3

\* login events in a run of the WebSocket client
WscEvents == 5

\* the cache on its own: calls of set and delete in a run, the shorter of
\* the two durations asked for, the step and the end of the clock, in ms
CacheOps == 4
ShortDuration == 300
CacheStep == 100
MaxCacheTime == 1000

\* defaultCacheDuration of the Cache constructor
DefaultCacheDuration == 500

\* updateDeviceStatus pauses (Math.random() * 200) + 200 ms before it sends
MinPause == 200
PauseSpread == 200

(* ------------------------- program constants -------------------------- *)

\* setInterval period of the completion check
CheckPeriod == 100
\* setTimeout delay of the deferred send in setTargetPosition / setFinalBlindsState
SendDelay == 1
\* targetTimestamp = Date.now() + 10 in updateBlindStateCharacteristic
StopGrace == 10
\* entries of the switches array of the device (initSwitchesConfig: outlets 0..3)
NumOutlets == 4

Outlets == 0 .. (NumOutlets - 1)
OnOff == {"on", "off"}

\* Characteristic.PositionState values used by the source
MOVING_UP == 0
MOVING_DOWN == 1
STOPPED == 2
ERROR_STATE == 3

(* ------------------------------ helpers ------------------------------- *)

Abs(x) == IF x < 0 THEN -x ELSE x

\* Math.round(n / d) for d > 0: floor(n/d + 1/2)
MathRound(n, d) == (2 * n + d) \div (2 * d)

(* --------------------------- relay codec ------------------------------ *)

getBlindState(sw, cfg) ==
    LET switch0 == IF sw[cfg.switchUp] = "on" THEN 1 ELSE 0
        switch1 == IF sw[cfg.switchDown] = "on" THEN 1 ELSE 0
        sum == (switch0 * 2) + switch1
    IN  CASE sum = 0 -> STOPPED
          [] sum = 1 -> MOVING_DOWN
          [] sum = 2 -> MOVING_UP
          [] sum = 3 -> ERROR_STATE

\* mutant: the two relays exchanged in the payload
prepareBlindSwitchesPayload_Swapped(sw, cfg, state) ==
    LET switch0 == IF state = MOVING_DOWN THEN "on" ELSE "off"
        switch1 == IF state = MOVING_UP THEN "on" ELSE "off"
        s1 == [sw EXCEPT ![cfg.switchUp] = switch0]
    IN  [s1 EXCEPT ![cfg.switchDown] = switch1]

\* mutant: only the relay of the direction is written
prepareBlindSwitchesPayload_OnlyDriven(sw, cfg, state) ==
    IF state = MOVING_UP THEN [sw EXCEPT ![cfg.switchUp] = "on"]
    ELSE IF state = MOVING_DOWN THEN [sw EXCEPT ![cfg.switchDown] = "on"]
    ELSE [[sw EXCEPT ![cfg.switchUp] = "off"] EXCEPT ![cfg.switchDown] = "off"]

\* mutant: the command is built from scratch, every other relay off
prepareBlindSwitchesPayload_ClearsOthers(sw, cfg, state) ==
    LET switch0 == IF state = MOVING_UP THEN "on" ELSE "off"
        switch1 == IF state = MOVING_DOWN THEN "on" ELSE "off"
        s1 == [[o \in DOMAIN sw |-> "off"] EXCEPT ![cfg.switchUp] = switch0]
    IN  [s1 EXCEPT ![cfg.switchDown] = switch1]

prepareBlindSwitchesPayload(sw, cfg, state) ==
    LET switch0 == IF state = MOVING_UP THEN "on" ELSE "off"
        switch1 == IF state = MOVING_DOWN THEN "on" ELSE "off"
        s1 == [sw EXCEPT ![cfg.switchUp] = switch0]
    IN  [s1 EXCEPT ![cfg.switchDown] = switch1]

(* ------------------------- position estimator ------------------------- *)

\* mutant: the way down rounded away from lastPosition, like the way up
actualPosition_RoundsAway(ctx, cfg, t) ==
    IF ctx.currentPositionState = MOVING_DOWN
    THEN ctx.lastPosition
           - MathRound((t - ctx.startTimestamp) * 100, cfg.durationDown)
    ELSE IF ctx.currentPositionState = MOVING_UP
    THEN MathRound(ctx.lastPosition * cfg.durationUp
                     + (t - ctx.startTimestamp) * 100, cfg.durationUp)
    ELSE ctx.lastPosition

actualPosition(ctx, cfg, t) ==
    IF ctx.currentPositionState = MOVING_DOWN
    THEN MathRound(ctx.lastPosition * cfg.durationDown
                     - (t - ctx.startTimestamp) * 100, cfg.durationDown)
    ELSE IF ctx.currentPositionState = MOVING_UP
    THEN MathRound(ctx.lastPosition * cfg.durationUp
                     + (t - ctx.startTimestamp) * 100, cfg.durationUp)
    ELSE ctx.lastPosition

(* ---------------------------------------------------------------------- *)
(* A machine state m gathers what one handler reads and writes:           *)
(*   ctx     accessory.context                                            *)
(*   sw      devicesFromApi.get(deviceId).params.switches (every payload  *)
(*           is this one array, not a copy)                               *)
(*   tm      bag of pending timers [kind, due]                            *)
(*   out     relay commands handed to apiClient.updateDeviceStatus        *)
(*   fin     number of setFinalBlindsState calls made by the handler      *)
(*   br      the branch of setTargetPosition the handler went through     *)
(* ---------------------------------------------------------------------- *)

Timer(kind, due) == [kind |-> kind, due |-> due]

setFinalBlindsState(m, cfg, t) ==
    LET ctx1 == [m.ctx EXCEPT !.currentPositionState = STOPPED]
    IN  [m EXCEPT !.ctx = ctx1,
                  !.sw = prepareBlindSwitchesPayload(m.sw, cfg, STOPPED),
                  !.tm = m.tm (+) SetToBag({Timer("final", t + SendDelay)}),
                  !.fin = m.fin + 1]

\* diffTime of setTargetPosition while moving
diffTimeOf(ctx, cfg, pos) ==
    IF ctx.currentPositionState = MOVING_DOWN
    THEN MathRound(cfg.durationDown * (ctx.currentTargetPosition - pos), 100)
    ELSE MathRound(cfg.durationUp * (pos - ctx.currentTargetPosition), 100)

\* diff of setTargetPosition while moving
diffOf(ctx, cfg, pos, t) == (ctx.targetTimestamp - t) + diffTimeOf(ctx, cfg, pos)

\* mutant: the margin added to every move, not only at the bottom
idleDuration_MarginAlways(ctx, cfg, pos) ==
    LET moveUp == pos > ctx.lastPosition
        scaled == IF moveUp
                  THEN (pos - ctx.lastPosition) * (cfg.durationUp - cfg.durationBMU)
                         + 100 * cfg.durationBMU
                  ELSE (ctx.lastPosition - pos) * (cfg.durationDown - cfg.durationBMD)
                         + 100 * cfg.durationBMD
        withOverdrive == scaled + (IF pos = 0 \/ pos = 100
                                   THEN 100 * cfg.fullOverdrive ELSE 0)
    IN  10 * MathRound(withOverdrive, 1000)

\* planned run time, in ms, of a move started from rest
idleDuration(ctx, cfg, pos) ==
    LET moveUp == pos > ctx.lastPosition
        withoutmarginetimeUP == cfg.durationUp - cfg.durationBMU
        withoutmarginetimeDOWN == cfg.durationDown - cfg.durationBMD
        \* 100000 * duration (duration in seconds)
        scaled == IF moveUp
                  THEN (pos - ctx.lastPosition) * withoutmarginetimeUP
                         + (IF ctx.lastPosition = 0 THEN 100 * cfg.durationBMU ELSE 0)
                  ELSE (ctx.lastPosition - pos) * withoutmarginetimeDOWN
                         + (IF pos = 0 THEN 100 * cfg.durationBMD ELSE 0)
        withOverdrive == scaled + (IF pos = 0 \/ pos = 100
                                   THEN 100 * cfg.fullOverdrive ELSE 0)
    IN  \* Math.round(duration * 100) / 100 seconds, times 1000
        10 * MathRound(withOverdrive, 1000)

\* mutant: extending the motion also restarts its clock
extendMotion_Restarts(m, cfg, pos, t) ==
    [m EXCEPT !.ctx = [m.ctx EXCEPT
                 !.targetTimestamp = m.ctx.targetTimestamp + diffTimeOf(m.ctx, cfg, pos),
                 !.startTimestamp = t,
                 !.currentTargetPosition = pos],
              !.br = "extend"]

\* diff > 0 (lines 1453-1460): the deadline moves, nothing is sent
extendMotion(m, cfg, pos, t) ==
    [m EXCEPT !.ctx = [m.ctx EXCEPT
                 !.targetTimestamp = m.ctx.targetTimestamp + diffTimeOf(m.ctx, cfg, pos),
                 !.currentTargetPosition = pos],
              !.br = "extend"]

\* mutant: the reversal plans the new run but sends no relay command
revertMotion_NoCommand(m, cfg, pos, t) ==
    LET ctx == m.ctx
        newState == IF ctx.currentPositionState = MOVING_UP
                    THEN MOVING_DOWN ELSE MOVING_UP
        sw1 == prepareBlindSwitchesPayload(m.sw, cfg, newState)
    IN  [m EXCEPT
            !.ctx = [ctx EXCEPT
                        !.startTimestamp = t,
                        !.targetTimestamp = t + Abs(diffOf(ctx, cfg, pos, t)),
                        !.lastPosition = actualPosition(ctx, cfg, t),
                        !.currentTargetPosition = pos,
                        !.currentPositionState = newState],
            !.sw = sw1,
            !.br = "revert"]

\* mutant: the revert keeps the old lastPosition
revertMotion_KeepsRest(m, cfg, pos, t) ==
    LET ctx == m.ctx
        newState == IF ctx.currentPositionState = MOVING_UP
                    THEN MOVING_DOWN ELSE MOVING_UP
        sw1 == prepareBlindSwitchesPayload(m.sw, cfg, newState)
    IN  [m EXCEPT !.ctx = [ctx EXCEPT
                     !.startTimestamp = t,
                     !.targetTimestamp = t + Abs(diffOf(ctx, cfg, pos, t)),
                     !.currentTargetPosition = pos,
                     !.currentPositionState = newState],
                  !.sw = sw1,
                  !.out = Append(m.out, sw1),
                  !.br = "revert"]

\* diff < 0 (lines 1461-1478): the motion is reverted and the command sent at once
revertMotion(m, cfg, pos, t) ==
    LET ctx == m.ctx
        newState == IF ctx.currentPositionState = MOVING_UP
                    THEN MOVING_DOWN ELSE MOVING_UP
        sw1 == prepareBlindSwitchesPayload(m.sw, cfg, newState)
    IN  [m EXCEPT !.ctx = [ctx EXCEPT
                     !.startTimestamp = t,
                     !.targetTimestamp = t + Abs(diffOf(ctx, cfg, pos, t)),
                     !.lastPosition = actualPosition(ctx, cfg, t),
                     !.currentTargetPosition = pos,
                     !.currentPositionState = newState],
                  !.sw = sw1,
                  !.out = Append(m.out, sw1),
                  !.br = "revert"]

\* mutant: the direction of a move from rest inverted
startMotion_Inverted(m, cfg, pos, t) ==
    LET ctx == m.ctx
        moveUp == pos < ctx.lastPosition
        newState == IF moveUp THEN MOVING_UP ELSE MOVING_DOWN
    IN  [m EXCEPT !.ctx = [ctx EXCEPT
                     !.currentTargetPosition = pos,
                     !.startTimestamp = t,
                     !.targetTimestamp = t + idleDuration(ctx, cfg, pos),
                     !.currentPositionState = newState],
                  !.sw = prepareBlindSwitchesPayload(m.sw, cfg, newState),
                  !.tm = m.tm (+) SetToBag({Timer("start", t + SendDelay)}),
                  !.br = "start"]

\* from rest (lines 1492-1542): plan the run, defer the send by SendDelay
startMotion(m, cfg, pos, t) ==
    LET ctx == m.ctx
        moveUp == pos > ctx.lastPosition
        newState == IF moveUp THEN MOVING_UP ELSE MOVING_DOWN
    IN  [m EXCEPT !.ctx = [ctx EXCEPT
                     !.currentTargetPosition = pos,
                     !.startTimestamp = t,
                     !.targetTimestamp = t + idleDuration(ctx, cfg, pos),
                     !.currentPositionState = newState],
                  !.sw = prepareBlindSwitchesPayload(m.sw, cfg, newState),
                  !.tm = m.tm (+) SetToBag({Timer("start", t + SendDelay)}),
                  !.br = "start"]

\* mutant: no test for a request that asks for where the blind already is
setTargetPosition_NoSameCheck(m, cfg, pos, t) ==
    IF m.ctx.currentPositionState # STOPPED
    THEN IF diffOf(m.ctx, cfg, pos, t) > 0
         THEN extendMotion(m, cfg, pos, t)
         ELSE IF diffOf(m.ctx, cfg, pos, t) < 0
         THEN revertMotion(m, cfg, pos, t)
         ELSE [m EXCEPT !.br = "zero"]
    ELSE startMotion(m, cfg, pos, t)

setTargetPosition(m, cfg, pos, t) ==
    IF m.ctx.currentPositionState # STOPPED
    THEN IF Abs(pos - m.ctx.currentTargetPosition) = 0
         THEN [m EXCEPT !.br = "same"]
         ELSE IF diffOf(m.ctx, cfg, pos, t) > 0
         THEN extendMotion(m, cfg, pos, t)
         ELSE IF diffOf(m.ctx, cfg, pos, t) < 0
         THEN revertMotion(m, cfg, pos, t)
         ELSE [m EXCEPT !.br = "zero"]
    ELSE IF m.ctx.lastPosition = pos
    THEN [m EXCEPT !.br = "rest"]
    ELSE startMotion(m, cfg, pos, t)

\* mutant: a report of the direction of travel is handled like any other
updateBlindStateCharacteristic_NoSameCheck(m, cfg, obs, t) ==
    LET state == getBlindState(obs, cfg)
        ctx == m.ctx
        actual == actualPosition(ctx, cfg, t)
        forceStop == setTargetPosition(
                        [m EXCEPT !.ctx = [ctx EXCEPT
                            !.currentTargetPosition = actual,
                            !.targetTimestamp = t + StopGrace]],
                        cfg, actual, t)
    IN  CASE state = ERROR_STATE -> forceStop
          [] state = STOPPED ->
                IF ctx.currentPositionState = STOPPED THEN m ELSE forceStop
          [] state = MOVING_DOWN ->
                IF ctx.currentTargetPosition = 0
                THEN setFinalBlindsState(m, cfg, t)
                ELSE setTargetPosition(m, cfg, 0, t)
          [] state = MOVING_UP ->
                IF ctx.currentTargetPosition = 100
                THEN setFinalBlindsState(m, cfg, t)
                ELSE setTargetPosition(m, cfg, 100, t)

\* mutant: a reported stop settles at the commanded target
updateBlindStateCharacteristic_StopAtTarget(m, cfg, obs, t) ==
    LET state == getBlindState(obs, cfg)
        ctx == m.ctx
        actual == actualPosition(ctx, cfg, t)
        forceStop == setTargetPosition(
                        [m EXCEPT !.ctx = [ctx EXCEPT
                            !.currentTargetPosition = actual,
                            !.targetTimestamp = t + StopGrace]],
                        cfg, actual, t)
    IN  CASE state = ERROR_STATE -> forceStop
          [] state = STOPPED ->
                IF ctx.currentPositionState = STOPPED THEN m
                ELSE [m EXCEPT !.ctx = [ctx EXCEPT !.targetTimestamp = t + StopGrace]]
          [] state = MOVING_DOWN ->
                IF ctx.currentPositionState = MOVING_DOWN THEN m
                ELSE IF ctx.currentTargetPosition = 0
                THEN setFinalBlindsState(m, cfg, t)
                ELSE setTargetPosition(m, cfg, 0, t)
          [] state = MOVING_UP ->
                IF ctx.currentPositionState = MOVING_UP THEN m
                ELSE IF ctx.currentTargetPosition = 100
                THEN setFinalBlindsState(m, cfg, t)
                ELSE setTargetPosition(m, cfg, 100, t)

\* mutant: a reported direction always goes through the set handler
updateBlindStateCharacteristic_NoLimitCheck(m, cfg, obs, t) ==
    LET state == getBlindState(obs, cfg)
        ctx == m.ctx
        actual == actualPosition(ctx, cfg, t)
        forceStop == setTargetPosition(
                        [m EXCEPT !.ctx = [ctx EXCEPT
                            !.currentTargetPosition = actual,
                            !.targetTimestamp = t + StopGrace]],
                        cfg, actual, t)
    IN  CASE state = ERROR_STATE -> forceStop
          [] state = STOPPED ->
                IF ctx.currentPositionState = STOPPED THEN m ELSE forceStop
          [] state = MOVING_DOWN ->
                IF ctx.currentPositionState = MOVING_DOWN THEN m
                ELSE setTargetPosition(m, cfg, 0, t)
          [] state = MOVING_UP ->
                IF ctx.currentPositionState = MOVING_UP THEN m
                ELSE setTargetPosition(m, cfg, 100, t)

updateBlindStateCharacteristic(m, cfg, obs, t) ==
    LET state == getBlindState(obs, cfg)
        ctx == m.ctx
        actual == actualPosition(ctx, cfg, t)
        \* lines 798-801 / 808-812: retarget to the estimate, then
        \* service.setCharacteristic(TargetPosition, ..) runs the 'set' handler
        forceStop == setTargetPosition(
                        [m EXCEPT !.ctx = [ctx EXCEPT
                            !.currentTargetPosition = actual,
                            !.targetTimestamp = t + StopGrace]],
                        cfg, actual, t)
    IN  CASE state = ERROR_STATE -> forceStop
          [] state = STOPPED ->
                IF ctx.currentPositionState = STOPPED THEN m ELSE forceStop
          [] state = MOVING_DOWN ->
                IF ctx.currentPositionState = MOVING_DOWN THEN m
                ELSE IF ctx.currentTargetPosition = 0
                THEN setFinalBlindsState(m, cfg, t)
                ELSE setTargetPosition(m, cfg, 0, t)
          [] state = MOVING_UP ->
                IF ctx.currentPositionState = MOVING_UP THEN m
                ELSE IF ctx.currentTargetPosition = 100
                THEN setFinalBlindsState(m, cfg, t)
                ELSE setTargetPosition(m, cfg, 100, t)

\* JavaScript truthiness of the group option handle_api_changes, which a
\* configuration leaves out ("undefined") or sets to true or false
Truthy(v) == v = "true"

\* the 'update' branch of the device state listener for a blind group
deviceStateListener(m, cfg, obs, t) ==
    IF Truthy(cfg.handle_api_changes)
    THEN updateBlindStateCharacteristic(m, cfg, obs, t)
    ELSE m

\* mutant: the decoded relay pair is handed to the callback as it is
getPositionStateResult_Raw(cfg, devSw) == getBlindState(devSw, cfg)

\* value handed to the callback of getPositionState
getPositionStateResult(cfg, devSw) ==
    IF getBlindState(devSw, cfg) > 2 THEN STOPPED ELSE getBlindState(devSw, cfg)

\* mutant: the query settles the blind whatever the device reports
getPositionState_AlwaysSettles(m, cfg, devSw, t) ==
    LET answered == [m EXCEPT !.res = getPositionStateResult(cfg, devSw)]
    IN  setFinalBlindsState(
             [answered EXCEPT !.ctx = [m.ctx EXCEPT !.currentPositionState = STOPPED]],
             cfg, t)

\* the .then() of getPositionState, devSw being device.params.switches
getPositionState(m, cfg, devSw, t) ==
    LET answered == [m EXCEPT !.res = getPositionStateResult(cfg, devSw)]
    IN  IF getBlindState(devSw, cfg) > 2
        THEN setFinalBlindsState(
                 [answered EXCEPT !.ctx = [m.ctx EXCEPT !.currentPositionState = STOPPED]],
                 cfg, t)
        ELSE answered

\* callback(null, lastPosition) of getCurrentPosition
getCurrentPosition(m) == [m EXCEPT !.res = m.ctx.lastPosition]

\* callback(null, currentTargetPosition) of getTargetPosition
getTargetPosition(m) == [m EXCEPT !.res = m.ctx.currentTargetPosition]

(* ------------------------- timer callbacks ---------------------------- *)

\* setTimeout body of setTargetPosition (lines 1529-1542)
startTimeout(m, cfg, t) ==
    [m EXCEPT !.out = Append(m.out, m.sw),
              !.tm = m.tm (+) SetToBag({Timer("check", t + CheckPeriod)})]

\* mutant: the check settles the move one period before the deadline
checkInterval_Early(m, cfg, tmr, t) ==
    IF t >= m.ctx.targetTimestamp - CheckPeriod
    THEN setFinalBlindsState(m, cfg, t)
    ELSE [m EXCEPT !.tm = m.tm (+) SetToBag({Timer("check", tmr.due + CheckPeriod)})]

\* setInterval body (lines 1534-1540); tmr is the interval that fires
checkInterval(m, cfg, tmr, t) ==
    IF t >= m.ctx.targetTimestamp
    THEN setFinalBlindsState(m, cfg, t)
    ELSE [m EXCEPT !.tm = m.tm (+) SetToBag({Timer("check", tmr.due + CheckPeriod)})]

\* mutant: the deferred step sends the stop but leaves lastPosition
finalTimeout_KeepsRest(m, cfg, t) ==
    [m EXCEPT !.out = Append(m.out, m.sw),
              !.ctx = [m.ctx EXCEPT !.currentPositionState = STOPPED]]

\* setTimeout body of setFinalBlindsState (lines 1551-1568)
finalTimeout(m, cfg, t) ==
    [m EXCEPT !.out = Append(m.out, m.sw),
              !.ctx = [m.ctx EXCEPT
                         !.currentPositionState = STOPPED,
                         !.lastPosition = m.ctx.currentTargetPosition]]

(* ----------------------------- the system ----------------------------- *)

\* group configurations explored (durations in ms)
Config(su, sd, up, down, bmu, bmd, od, hac) ==
    [switchUp |-> su, switchDown |-> sd, durationUp |-> up, durationDown |-> down,
     durationBMU |-> bmu, durationBMD |-> bmd, fullOverdrive |-> od,
     handle_api_changes |-> hac]

Configs ==
    { Config(0, 1, 1000, 1000, 0, 0, 0, "true"),
      Config(0, 1, 1500, 1000, 200, 100, 200, "true"),
      Config(0, 1, 1000, 1000, 0, 0, 0, "undefined"),
      Config(0, 1, 1000, 1000, 0, 0, 0, "false") }

\* positions asked for through the TargetPosition characteristic
Positions == {0, 5, 8, 50, 100}

\* lastPosition at start: 100 when added, the persisted value when restored
InitPositions == {0, 100}

AllOff == [o \in Outlets |-> "off"]

\* relay arrays a push event or a status query can carry
Reports ==
    { [AllOff EXCEPT ![0] = a, ![1] = b] : a \in OnOff, b \in OnOff }

NoPure == [stage |-> "none", d |-> STOPPED, result |-> STOPPED]

NoOp == [op |-> "init", arg |-> 0, fin |-> 0, br |-> "none", res |-> 0]

Init ==
    /\ config \in Configs
    /\ \E p \in InitPositions :
          context = [lastPosition |-> p, currentTargetPosition |-> p,
                     currentPositionState |-> STOPPED,
                     startTimestamp |-> 0, targetTimestamp |-> 0]
    /\ switches = AllOff
    /\ timers = EmptyBag
    /\ now = 0
    /\ emitted = <<>>
    /\ finalized = 0
    /\ lastOp = NoOp
    /\ events = 0
    /\ pure = NoPure

Machine ==
    [ctx |-> context, sw |-> switches, tm |-> timers, out |-> <<>>, fin |-> 0,
     br |-> "none", res |-> 0]

Min(a, b) == IF a < b THEN a ELSE b

\* a new motion starts when a handler leaves rest
StartsMotion(r) ==
    /\ context.currentPositionState = STOPPED
    /\ r.ctx.currentPositionState # STOPPED

Commit(r, op, arg) ==
    /\ context' = r.ctx
    /\ switches' = r.sw
    /\ timers' = r.tm
    /\ emitted' = r.out
    /\ finalized' = IF StartsMotion(r) THEN 0 ELSE Min(finalized + r.fin, 2)
    /\ lastOp' = [op |-> op, arg |-> arg, fin |-> r.fin, br |-> r.br, res |-> r.res]
    /\ UNCHANGED <<config, pure>>

SetTarget ==
    /\ events < MaxEvents
    /\ events' = events + 1
    /\ \E pos \in Positions :
        /\ Commit(setTargetPosition(Machine, config, pos, now), "setTarget", pos)
        /\ UNCHANGED now

Observe ==
    /\ events < MaxEvents
    /\ events' = events + 1
    /\ \E obs \in Reports :
        /\ Commit(deviceStateListener(Machine, config, obs, now),
                  IF Truthy(config.handle_api_changes) THEN "observe" ELSE "ignored",
                  IF Truthy(config.handle_api_changes)
                  THEN getBlindState(obs, config) ELSE 0)
        /\ UNCHANGED now

QueryState ==
    /\ events < MaxEvents
    /\ events' = events + 1
    /\ \E devSw \in Reports :
        /\ Commit(getPositionState(Machine, config, devSw, now),
                  "query", getBlindState(devSw, config))
        /\ UNCHANGED now

QueryPosition ==
    /\ events < MaxEvents
    /\ events' = events + 1
    /\ Commit(getCurrentPosition(Machine), "position", 0)
    /\ UNCHANGED now

QueryTarget ==
    /\ events < MaxEvents
    /\ events' = events + 1
    /\ Commit(getTargetPosition(Machine), "target", 0)
    /\ UNCHANGED now

Due == { tmr \in BagToSet(timers) : tmr.due <= now }

Without(tmr) == [Machine EXCEPT !.tm = timers (-) SetToBag({tmr})]

FireStart ==
    /\ UNCHANGED events
    /\ \E tmr \in Due :
        /\ tmr.kind = "start"
        /\ Commit(startTimeout(Without(tmr), config, now), "start", 0)
        /\ UNCHANGED now

FireCheck ==
    /\ UNCHANGED events
    /\ \E tmr \in Due :
        /\ tmr.kind = "check"
        /\ Commit(checkInterval(Without(tmr), config, tmr, now), "check", 0)
        /\ UNCHANGED now

FireFinal ==
    /\ UNCHANGED events
    /\ \E tmr \in Due :
        /\ tmr.kind = "final"
        /\ Commit(finalTimeout(Without(tmr), config, now), "final", 0)
        /\ UNCHANGED now

NextDue == CHOOSE d \in { tmr.due : tmr \in BagToSet(timers) } :
              \A tmr \in BagToSet(timers) : d <= tmr.due

\* the clock advances to the next timer, which fires on time: events can
\* still be handled at that instant, before or after the callback
Tick ==
    /\ Due = {}
    /\ now' = IF BagToSet(timers) = {} THEN now + IdleStep ELSE NextDue
    /\ now' <= MaxTime
    /\ UNCHANGED <<context, switches, timers, config, emitted, finalized, lastOp, events, pure>>

Next ==
    \/ SetTarget
    \/ Observe
    \/ QueryState
    \/ QueryPosition
    \/ QueryTarget
    \/ FireStart
    \/ FireCheck
    \/ FireFinal
    \/ Tick

Spec == Init /\ [][Next]_vars

TypeOK ==
    /\ context.currentPositionState \in {MOVING_UP, MOVING_DOWN, STOPPED}
    /\ now \in 0 .. MaxTime
    /\ finalized \in 0 .. 2

(* ------------------- runs checked for progress ------------------------ *)
(* The event loop of Node runs every callback that is due and the clock   *)
(* goes on: the timer callbacks and the passing of time are weakly fair.  *)
(* External events are not: any of them may never come.  Time at rest     *)
(* changes nothing but the clock, so these runs only advance the clock    *)
(* to the next pending timer.                                             *)

LiveTick ==
    /\ Due = {}
    /\ BagToSet(timers) # {}
    /\ now' = NextDue
    /\ UNCHANGED <<context, switches, timers, config, emitted, finalized, lastOp, events, pure>>

LiveNext ==
    \/ events < LiveEvents /\ SetTarget
    \/ events < LiveEvents /\ Observe
    \/ events < LiveEvents /\ QueryState
    \/ events < LiveEvents /\ QueryPosition
    \/ events < LiveEvents /\ QueryTarget
    \/ FireStart
    \/ FireCheck
    \/ FireFinal
    \/ LiveTick

LiveSpec ==
    /\ Init
    /\ [][LiveNext]_vars
    /\ WF_vars(FireStart)
    /\ WF_vars(FireCheck)
    /\ WF_vars(FireFinal)
    /\ WF_vars(LiveTick)

(* ------------------------- provisioning ------------------------------- *)
(* What addAccessory and configureAccessory make of the context: a new    *)
(* accessory has none, a cached one comes back with the context that was  *)
(* persisted, saved at rest or during a move, with or without a           *)
(* lastPosition.  actualPosition is not clamped and a reversal stores it  *)
(* in lastPosition, so a persisted lastPosition can lie outside 0..100.   *)

PersistedPositions == (0 - MaxOvershoot) .. (100 + MaxOvershoot)

\* accessory.context of a new blind (addAccessory)
addedContext ==
    [lastPosition |-> 100, currentTargetPosition |-> 100,
     currentPositionState |-> STOPPED,
     startTimestamp |-> 0, targetTimestamp |-> 0]

\* mutant: the restored target is the persisted target
restoredContext_KeepsTarget(ctx) ==
    LET lastPosition == IF "lastPosition" \notin DOMAIN ctx THEN 0
                        ELSE IF ctx.lastPosition < 0 THEN 0
                        ELSE ctx.lastPosition
    IN  [lastPosition |-> lastPosition,
         currentTargetPosition |-> ctx.currentTargetPosition,
         currentPositionState |-> STOPPED,
         startTimestamp |-> ctx.startTimestamp,
         targetTimestamp |-> ctx.targetTimestamp]

\* accessory.context of a cached blind after "Restore previous state"
restoredContext(ctx) ==
    LET lastPosition == IF "lastPosition" \notin DOMAIN ctx THEN 0
                        ELSE IF ctx.lastPosition < 0 THEN 0
                        ELSE ctx.lastPosition
    IN  [lastPosition |-> lastPosition,
         currentTargetPosition |-> lastPosition,
         currentPositionState |-> STOPPED,
         startTimestamp |-> ctx.startTimestamp,
         targetTimestamp |-> ctx.targetTimestamp]

\* contexts the accessory cache can hand back
PersistedContexts ==
    { [lastPosition |-> p, currentTargetPosition |-> q,
       currentPositionState |-> d,
       startTimestamp |-> 0, targetTimestamp |-> 0] :
         p \in PersistedPositions, q \in Positions,
         d \in {MOVING_UP, MOVING_DOWN, STOPPED} }
    \cup
    { [currentTargetPosition |-> q, currentPositionState |-> d,
       startTimestamp |-> 0, targetTimestamp |-> 0] :
         q \in Positions, d \in {MOVING_UP, MOVING_DOWN, STOPPED} }

ProvisionInit ==
    /\ config \in Configs
    /\ \/ /\ pure = [stage |-> "new", d |-> STOPPED, result |-> STOPPED]
          /\ context = << >>
       \/ /\ pure = [stage |-> "cached", d |-> STOPPED, result |-> STOPPED]
          /\ context \in PersistedContexts
    /\ switches = AllOff
    /\ timers = EmptyBag
    /\ now = 0
    /\ emitted = <<>>
    /\ finalized = 0
    /\ lastOp = NoOp
    /\ events = 0

AddAccessory ==
    /\ pure.stage = "new"
    /\ context' = addedContext
    /\ pure' = [pure EXCEPT !.stage = "added"]
    /\ UNCHANGED <<switches, timers, now, config, emitted, finalized, lastOp, events>>

ConfigureAccessory ==
    /\ pure.stage = "cached"
    /\ context' = restoredContext(context)
    /\ pure' = [pure EXCEPT !.stage = "restored"]
    /\ UNCHANGED <<switches, timers, now, config, emitted, finalized, lastOp, events>>

ProvisionNext ==
    \/ AddAccessory
    \/ ConfigureAccessory

ProvisionSpec == ProvisionInit /\ [][ProvisionNext]_vars

(* ------------------- the relay codec on its own ----------------------- *)
(* Every pair of relay indices a group can configure, every content of    *)
(* the device's switches array, every direction: encode, then decode.     *)

CodecInit ==
    /\ \E su \in Outlets, sd \in Outlets :
          config = Config(su, sd, 1000, 1000, 0, 0, 0, "true")
    /\ switches \in [Outlets -> OnOff]
    /\ \E d \in {MOVING_UP, MOVING_DOWN, STOPPED} :
          /\ context = [lastPosition |-> 0, currentTargetPosition |-> 0,
                        currentPositionState |-> d,
                        startTimestamp |-> 0, targetTimestamp |-> 0]
          /\ pure = [stage |-> "input", d |-> d, result |-> STOPPED]
    /\ timers = EmptyBag
    /\ now = 0
    /\ emitted = <<>>
    /\ finalized = 0
    /\ lastOp = NoOp
    /\ events = 0

CodecEncode ==
    /\ pure.stage = "input"
    /\ switches' = prepareBlindSwitchesPayload(switches, config,
                                               context.currentPositionState)
    /\ pure' = [pure EXCEPT !.stage = "encoded"]
    /\ UNCHANGED <<context, timers, now, config, emitted, finalized, lastOp, events>>

CodecDecode ==
    /\ pure.stage = "encoded"
    /\ pure' = [pure EXCEPT !.stage = "decoded",
                            !.result = getBlindState(switches, config)]
    /\ UNCHANGED <<context, switches, timers, now, config, emitted, finalized,
                   lastOp, events>>

CodecNext ==
    \/ CodecEncode
    \/ CodecDecode

CodecSpec == CodecInit /\ [][CodecNext]_vars

(* ------------------------------ claims -------------------------------- *)

\* the step is the handler op of an external event
ExternalStep(op) == events' = events + 1 /\ lastOp'.op = op

\* the step is the timer callback op
TimerStep(op) == events' = events /\ timers' # timers /\ lastOp'.op = op

SetTargetStep(pos) == ExternalStep("setTarget") /\ lastOp'.arg = pos

Moving(ctx) == ctx.currentPositionState # STOPPED

\* number of completion-check intervals alive
ActiveChecks ==
    LET S == { tmr \in BagToSet(timers) : tmr.kind = "check" }
    IN  BagCardinality([tmr \in S |-> timers[tmr]])

\* C1: every Conflict observation handled by the reconciler, at rest or while
\* moving, makes exactly one Finalize call and leaves the direction Idle.
C1_ConflictFinalizes ==
    [][(ExternalStep("observe") /\ lastOp'.arg = ERROR_STATE)
         => (lastOp'.fin = 1 /\ context'.currentPositionState = STOPPED)]_vars

\* C2: a completion check that finalizes does so once, for a motion that was
\* not finalized before and while the controller is not already Idle.
C2_FinalizedOnce ==
    [][(TimerStep("check") /\ lastOp'.fin > 0)
         => (/\ lastOp'.fin = 1
             /\ Moving(context)
             /\ finalized = 0
             /\ ~ (\E tmr \in BagToSet(timers') : tmr.kind = "check"))]_vars

\* C3: at most one completion-check loop is alive, and none while Idle.
C3_OneLoop ==
    /\ ActiveChecks <= 1
    /\ (~ Moving(context) => ActiveChecks = 0)

\* C4: the direction is Idle exactly when lastPosition = currentTargetPosition.
C4_IdleIffAtTarget ==
    (~ Moving(context)) <=> (context.lastPosition = context.currentTargetPosition)

Opposite(state) == IF state = MOVING_UP THEN MOVING_DOWN ELSE MOVING_UP

\* C5: a set request while moving whose target lies behind the travel
\* (diff < 0) reverses the direction and makes lastPosition the position
\* estimated at that instant, so the estimate is the same before and after.
C5_ReversalContinuity ==
    [][\A pos \in Positions :
          (/\ SetTargetStep(pos)
           /\ Moving(context)
           /\ pos # context.currentTargetPosition
           /\ diffOf(context, config, pos, now) < 0)
          => (/\ context'.currentPositionState = Opposite(context.currentPositionState)
              /\ context'.lastPosition = actualPosition(context, config, now)
              /\ actualPosition(context', config, now)
                   = actualPosition(context, config, now))]_vars

C5_Reverted ==
    /\ lastOp.op = "setTarget"
    /\ lastOp.br = "revert"
    /\ context.startTimestamp = now
    /\ now > SendDelay
    /\ context.lastPosition \notin InitPositions

Farther(ctx, pos) ==
    \/ ctx.currentPositionState = MOVING_UP /\ pos > ctx.currentTargetPosition
    \/ ctx.currentPositionState = MOVING_DOWN /\ pos < ctx.currentTargetPosition

SameMotion ==
    /\ context'.currentPositionState = context.currentPositionState
    /\ context'.lastPosition = context.lastPosition
    /\ context'.startTimestamp = context.startTimestamp
    /\ emitted' = <<>>

\* C6 as stated: a set request farther along the direction of travel keeps
\* direction, lastPosition and startTimestamp and sends nothing, at any
\* instant, the time between targetTimestamp and the next check included.
C6_FartherKeepsMotionAlways ==
    [][\A pos \in Positions :
          (SetTargetStep(pos) /\ Farther(context, pos)) => SameMotion]_vars

\* C6 amended: the same at every instant before targetTimestamp, and after
\* it as long as diff > 0; only targetTimestamp (by diffTime) and
\* currentTargetPosition change.
C6_FartherKeepsMotion ==
    [][\A pos \in Positions :
          (/\ SetTargetStep(pos)
           /\ Farther(context, pos)
           /\ \/ now < context.targetTimestamp
              \/ diffOf(context, config, pos, now) > 0)
          => (/\ SameMotion
              /\ context'.currentTargetPosition = pos
              /\ context'.targetTimestamp
                   = context.targetTimestamp + diffTimeOf(context, config, pos)
              /\ switches' = switches
              /\ timers' = timers)]_vars

C6_Extended ==
    /\ lastOp.op = "setTarget"
    /\ lastOp.br = "extend"
    /\ Farther([context EXCEPT !.currentTargetPosition = context.lastPosition],
               context.currentTargetPosition)
    /\ now > context.startTimestamp
    /\ now < context.targetTimestamp

\* C7: a set request for the position at rest, or for the target of the
\* motion in flight, changes nothing, sends nothing and arms nothing.
C7_NoOpLaw ==
    [][\A pos \in Positions :
          (/\ SetTargetStep(pos)
           /\ \/ ~ Moving(context) /\ context.lastPosition = pos
              \/ Moving(context) /\ context.currentTargetPosition = pos)
          => (/\ context' = context
              /\ switches' = switches
              /\ timers' = timers
              /\ emitted' = <<>>)]_vars

C7_NoOpTaken ==
    /\ lastOp.op = "setTarget"
    /\ lastOp.br = "rest"
    /\ lastOp.arg = context.lastPosition
    /\ ~ Moving(context)
    /\ timers = EmptyBag
    /\ finalized = 1

\* C8: a set request from rest for another position moves up when the
\* position is above lastPosition and down when below, records the target
\* and the start time, and the relay command prepared, sent SendDelay later,
\* encodes that direction.
C8_DirectionLaw ==
    [][/\ \A pos \in Positions :
            (/\ SetTargetStep(pos)
             /\ ~ Moving(context)
             /\ context.lastPosition # pos)
            => (/\ context'.currentPositionState
                     = (IF pos > context.lastPosition THEN MOVING_UP ELSE MOVING_DOWN)
                /\ context'.currentTargetPosition = pos
                /\ context'.startTimestamp = now
                /\ getBlindState(switches', config) = context'.currentPositionState
                /\ BagIn(Timer("start", now + SendDelay), timers'))
       /\ (TimerStep("start") /\ lastOp.op = "setTarget" /\ lastOp.br = "start")
            => (/\ Len(emitted') = 1
                /\ getBlindState(emitted'[1], config)
                     = context.currentPositionState)]_vars

C8_Started ==
    /\ lastOp.op = "start"
    /\ Len(emitted) = 1
    /\ getBlindState(emitted[1], config) = MOVING_DOWN
    /\ context.currentPositionState = MOVING_DOWN
    /\ context.startTimestamp + SendDelay = now

\* C9: with distinct relay indices, decoding the relay pair encoded for a
\* direction gives the direction back, never the error state.
C9_CodecRoundTrip ==
    (pure.stage = "decoded" /\ config.switchUp # config.switchDown)
        => (pure.result = pure.d /\ pure.result # ERROR_STATE)

C9_Decoded ==
    /\ pure.stage = "decoded"
    /\ config.switchUp # config.switchDown
    /\ pure.d = MOVING_UP
    /\ pure.result = MOVING_UP

\* 100 times the run time in ms that C10 states for a move from rest
StatedDuration100(ctx, cfg, pos) ==
    LET up == pos > ctx.lastPosition
        travel == IF up THEN cfg.durationUp ELSE cfg.durationDown
        margin == IF up THEN cfg.durationBMU ELSE cfg.durationBMD
        atBottom == IF up THEN ctx.lastPosition = 0 ELSE pos = 0
    IN  Abs(pos - ctx.lastPosition) * (travel - margin)
          + (IF atBottom THEN 100 * margin ELSE 0)
          + (IF pos = 0 \/ pos = 100 THEN 100 * cfg.fullOverdrive ELSE 0)

IdleStart(pos) ==
    /\ SetTargetStep(pos)
    /\ ~ Moving(context)
    /\ context.lastPosition # pos

\* C10 as stated: the planned run time of a move from rest is exactly the
\* proportional time plus the margin at the bottom plus the overdrive.
C10_ExactDuration ==
    [][\A pos \in Positions :
          IdleStart(pos)
          => 100 * (context'.targetTimestamp - now)
               = StatedDuration100(context, config, pos)]_vars

\* C10 amended: it is that time rounded to the nearest hundredth of a second.
C10_RoundedDuration ==
    [][\A pos \in Positions :
          IdleStart(pos)
          => LET planned == context'.targetTimestamp - now
                 stated == StatedDuration100(context, config, pos)
             IN  /\ planned % 10 = 0
                 /\ 100 * planned - stated <= 500
                 /\ stated - 100 * planned < 500]_vars

C10_Planned ==
    /\ lastOp.op = "setTarget"
    /\ lastOp.br = "start"
    /\ context.startTimestamp = now
    /\ config.durationBMD > 0
    /\ config.fullOverdrive > 0
    /\ context.currentTargetPosition = 0
    /\ context.targetTimestamp - now
         = 10 * context.lastPosition - context.lastPosition + 300

\* C11: a set request while moving whose diff = (targetTimestamp - now) +
\* diffTime is negative restarts the clock at now, plans the arrival at
\* now + |diff|, takes the new target and the opposite direction, and sends
\* exactly one relay command, which encodes the new direction.
C11_ReversalPlanning ==
    [][\A pos \in Positions :
          (/\ SetTargetStep(pos)
           /\ Moving(context)
           /\ pos # context.currentTargetPosition
           /\ diffOf(context, config, pos, now) < 0)
          => (/\ context'.startTimestamp = now
              /\ context'.targetTimestamp
                   = now + Abs(diffOf(context, config, pos, now))
              /\ context'.lastPosition = actualPosition(context, config, now)
              /\ context'.currentTargetPosition = pos
              /\ context'.currentPositionState
                   = Opposite(context.currentPositionState)
              /\ Len(emitted') = 1
              /\ getBlindState(emitted'[1], config)
                   = context'.currentPositionState)]_vars

\* the reversal of Scenario 3 scaled to a 1000 ms travel: up from 0 to 100,
\* set request for 0 part of the way
C11_ReversalPlanned ==
    /\ lastOp.op = "setTarget"
    /\ lastOp.br = "revert"
    /\ lastOp.arg = 0
    /\ config.fullOverdrive = 0
    /\ context.currentPositionState = MOVING_DOWN
    /\ context.startTimestamp = now
    /\ context.lastPosition > 0
    /\ context.lastPosition < 100
    /\ context.targetTimestamp = now + 10 * context.lastPosition
    /\ Len(emitted) = 1
    /\ getBlindState(emitted[1], config) = MOVING_DOWN

\* the last step handled a set request, a pushed update passed to the
\* reconciler or a status query that found both relays on: no timer
\* callback ran since
AnotherEvent ==
    \/ lastOp.op \in {"setTarget", "observe"}
    \/ lastOp.op = "query" /\ lastOp.fin > 0

\* the reconciler has just handled a report of both relays off while moving
StopObserved ==
    /\ lastOp.op = "observe"
    /\ lastOp.arg = STOPPED
    /\ Moving(context)

\* C12: when the reconciler receives a report of both relays off while the
\* blind moves, the target becomes the position estimated at that instant,
\* no timer callback changes the target afterwards, and unless another
\* external event comes first the controller ends Idle with lastPosition
\* equal to that target; when the report comes at rest nothing changes.
C12_ExternalStop ==
    /\ [][(ExternalStep("observe") /\ lastOp'.arg = STOPPED)
            => IF Moving(context)
               THEN context'.currentTargetPosition
                        = actualPosition(context, config, now)
               ELSE /\ context' = context
                    /\ switches' = switches
                    /\ timers' = timers
                    /\ emitted' = <<>>]_vars
    /\ [][events' = events
            => context'.currentTargetPosition = context.currentTargetPosition]_vars
    /\ StopObserved
          ~> (\/ /\ ~ Moving(context)
                 /\ context.lastPosition = context.currentTargetPosition
                 /\ lastOp.op = "final"
              \/ AnotherEvent /\ ~ StopObserved)

\* a stop reported part of the way of a move: the target is the estimate
C12_StopObservedMidway ==
    /\ StopObserved
    /\ events = 2
    /\ now > context.startTimestamp + SendDelay
    /\ context.currentTargetPosition = actualPosition(context, config, now)
    /\ context.currentTargetPosition \notin Positions
    /\ context.targetTimestamp = now + StopGrace

\* C13: the value handed to a CurrentPosition query is the position
\* estimated at that instant, also while a motion is in flight.
C13_PositionIsEstimate ==
    [][ExternalStep("position")
         => lastOp'.res = actualPosition(context, config, now)]_vars

\* C14: whatever pair of relay states the device reports, a PositionState
\* query answers moving up, moving down or stopped; when both relays are on
\* the answer is stopped.
C14_StateAnswer ==
    [][ExternalStep("query")
         => (/\ lastOp'.res \in {MOVING_UP, MOVING_DOWN, STOPPED}
             /\ (lastOp'.arg = ERROR_STATE => lastOp'.res = STOPPED)
             /\ (lastOp'.arg # ERROR_STATE => lastOp'.res = lastOp'.arg))]_vars

\* a query made while moving up finds both relays on
C14_ConflictAnswered ==
    /\ lastOp.op = "query"
    /\ lastOp.arg = ERROR_STATE
    /\ lastOp.res = STOPPED
    /\ lastOp.fin = 1
    /\ now > context.startTimestamp
    /\ context.lastPosition # context.currentTargetPosition

\* C15: the pushes to the characteristics only assign values: the reconciler
\* never runs the TargetPosition 'set' handler (no branch of
\* setTargetPosition is taken) and sends or schedules no relay command of a
\* move, and the pushes of a reversal and of the settling of a move add
\* nothing to the one relay command of that step.
C15_PushesOnlyAssign ==
    [][/\ ExternalStep("observe")
            => (/\ lastOp'.br = "none"
                /\ emitted' = <<>>
                /\ \A tmr \in BagToSet(timers') :
                       tmr.kind = "start" => BagIn(tmr, timers))
       /\ (ExternalStep("setTarget") /\ lastOp'.br = "revert")
            => Len(emitted') = 1
       /\ TimerStep("final")
            => (lastOp'.br = "none" /\ Len(emitted') = 1)]_vars

\* the step is the device state listener handling a pushed update
PushStep == events' = events + 1 /\ lastOp'.op \in {"observe", "ignored"}

\* C16: a pushed update is handed to the reconciler when the group sets
\* handle_api_changes to true or leaves it out, and when the group sets it
\* to false a pushed update leaves the context as it is.
C16_ApiChangesDefault ==
    [][PushStep
         => IF config.handle_api_changes = "false"
            THEN lastOp'.op = "ignored" /\ context' = context
            ELSE lastOp'.op = "observe"]_vars

\* the context is at rest at position p
AtRestAt(ctx, p) ==
    /\ ctx.currentPositionState = STOPPED
    /\ ctx.lastPosition = p
    /\ ctx.currentTargetPosition = p

MotionStarted ==
    /\ lastOp.op = "setTarget"
    /\ lastOp.br = "start"

\* the deferred step of setFinalBlindsState has just settled the blind at
\* its target and sent both relays off
SettledAtTarget ==
    /\ lastOp.op = "final"
    /\ ~ Moving(context)
    /\ context.lastPosition = context.currentTargetPosition
    /\ Len(emitted) = 1
    /\ getBlindState(emitted[1], config) = STOPPED

\* C18: a set request that starts a move records the position asked for as
\* the target, no timer callback changes the target, and with timers that
\* fire the controller then comes to rest with lastPosition equal to the
\* target and a command with both relays off sent, unless another set
\* request or observation comes first.
C18_MotionCompletes ==
    /\ [](MotionStarted => context.currentTargetPosition = lastOp.arg)
    /\ [][events' = events
            => context'.currentTargetPosition = context.currentTargetPosition]_vars
    /\ MotionStarted ~> (SettledAtTarget \/ (AnotherEvent /\ ~ MotionStarted))

\* Scenario 1 scaled down: one set request, then only timers, down to the
\* last one
C18_Completed ==
    /\ SettledAtTarget
    /\ events = 1
    /\ finalized = 1
    /\ timers = EmptyBag
    /\ context.lastPosition = 50
    /\ now > SendDelay + CheckPeriod

\* C19: a set request, while moving, for the position estimated at that
\* instant makes that position the target of the motion, which the next
\* completion checks then settle; stated here for the request itself: the
\* target it leaves is the position asked for.
C19_StopInPlace ==
    [][\A pos \in Positions :
          (/\ SetTargetStep(pos)
           /\ Moving(context)
           /\ pos = actualPosition(context, config, now))
          => context'.currentTargetPosition = pos]_vars

\* the overdrive a target calls for
OverdriveFor(cfg, pos) == IF pos = 0 \/ pos = 100 THEN cfg.fullOverdrive ELSE 0

\* C20: whichever way a set request plans the run, from rest, by extending
\* the motion (diff > 0) or by reversing it (diff < 0), the planned end is
\* the end planned without overdrive plus fullOverdrive when the target is
\* 0 or 100.
C20_OverdriveEverywhere ==
    [][\A pos \in Positions :
          /\ IdleStart(pos)
               => context'.targetTimestamp
                    = now + idleDuration(context,
                                         [config EXCEPT !.fullOverdrive = 0], pos)
                          + OverdriveFor(config, pos)
          /\ (/\ SetTargetStep(pos)
              /\ Moving(context)
              /\ pos # context.currentTargetPosition
              /\ diffOf(context, config, pos, now) > 0)
               => context'.targetTimestamp
                    = context.targetTimestamp + diffTimeOf(context, config, pos)
                        + OverdriveFor(config, pos)
          /\ (/\ SetTargetStep(pos)
              /\ Moving(context)
              /\ pos # context.currentTargetPosition
              /\ diffOf(context, config, pos, now) < 0)
               => context'.targetTimestamp
                    = now + Abs(diffOf(context, config, pos, now))
                        + OverdriveFor(config, pos)]_vars

\* C21: the deferred step of setFinalBlindsState leaves the blind at rest
\* with lastPosition equal to the target, which it does not change, and
\* sends one command, with both relays off.
C21_FinalizeSettles ==
    [][TimerStep("final")
         => (/\ ~ Moving(context')
             /\ context'.lastPosition = context'.currentTargetPosition
             /\ context'.currentTargetPosition = context.currentTargetPosition
             /\ Len(emitted') = 1
             /\ getBlindState(emitted'[1], config) = STOPPED)]_vars

\* C22: a completion check calls setFinalBlindsState exactly when the clock
\* has reached the targetTimestamp in force at that moment, and otherwise
\* leaves the context alone; a set request that moves targetTimestamp
\* while keeping the direction touches no timer.
C22_DeadlineInForce ==
    [][/\ TimerStep("check")
            => IF now >= context.targetTimestamp
               THEN lastOp'.fin = 1
               ELSE lastOp'.fin = 0 /\ context' = context
       /\ (ExternalStep("setTarget") /\ lastOp'.br = "extend")
            => timers' = timers]_vars

\* a move down from 100 to 8 retargeted to 50, which cuts the run to 410 ms:
\* the first check after the new deadline settles it
C22_SettledAtNewDeadline ==
    /\ lastOp.op = "check"
    /\ lastOp.fin = 1
    /\ config.durationBMD > 0
    /\ context.lastPosition = 100
    /\ context.currentTargetPosition = 50
    /\ context.targetTimestamp = context.startTimestamp + 410
    /\ now >= context.targetTimestamp
    /\ now < context.targetTimestamp + CheckPeriod

\* the step handles one of the three read requests
QueryStep ==
    \/ ExternalStep("position")
    \/ ExternalStep("target")
    \/ ExternalStep("query")

C24_SameStateNoOp ==
    [][(ExternalStep("observe") /\ lastOp'.arg = context.currentPositionState)
         => (/\ context' = context
             /\ switches' = switches
             /\ timers' = timers
             /\ emitted' = <<>>
             /\ lastOp'.fin = 0
             /\ lastOp'.br = "none")]_vars

\* the report of the down relay that the blind's own command caused
C24_EchoWhileMovingDown ==
    /\ lastOp.op = "observe"
    /\ lastOp.arg = MOVING_DOWN
    /\ lastOp.br = "none"
    /\ lastOp.fin = 0
    /\ context.currentPositionState = MOVING_DOWN
    /\ now > context.startTimestamp + SendDelay
    /\ now < context.targetTimestamp

\* the limit a reported direction leads to
LimitOf(state) == IF state = MOVING_DOWN THEN 0 ELSE 100

\* the reconciler handles a report of a direction that is not the
\* controller's, while the target is not yet the limit of that direction
AlignStep ==
    /\ ExternalStep("observe")
    /\ lastOp'.arg \in {MOVING_UP, MOVING_DOWN}
    /\ lastOp'.arg # context.currentPositionState
    /\ context.currentTargetPosition # LimitOf(lastOp'.arg)

\* C25: such a report is taken into the context without a relay command:
\* none is sent by the reconciler and none is scheduled.
C25_AlignWithoutCommand ==
    [][AlignStep
         => (/\ emitted' = <<>>
             /\ \A tmr \in BagToSet(timers') :
                    tmr.kind = "start" => BagIn(tmr, timers))]_vars

\* C26: after such a report the target is the limit of the reported
\* direction, and a controller that was at rest moves in that direction
\* from now on, lastPosition being what it was at rest.
C26_AlignedToLimit ==
    [][AlignStep
         => (/\ context'.currentTargetPosition = LimitOf(lastOp'.arg)
             /\ ~ Moving(context)
                  => (/\ context'.currentPositionState = lastOp'.arg
                      /\ context'.startTimestamp = now
                      /\ context'.lastPosition = context.lastPosition))]_vars

\* the reconciler handles a report of a direction that is not the
\* controller's, while the target is already the limit of that direction
AtLimitStep ==
    /\ ExternalStep("observe")
    /\ lastOp'.arg \in {MOVING_UP, MOVING_DOWN}
    /\ lastOp'.arg # context.currentPositionState
    /\ context.currentTargetPosition = LimitOf(lastOp'.arg)

\* the step before was such a report
AfterAtLimitReport ==
    /\ lastOp.op = "observe"
    /\ lastOp.arg \in {MOVING_UP, MOVING_DOWN}
    /\ lastOp.fin = 1
    /\ lastOp.br = "none"

\* C27: on such a report the reconciler calls setFinalBlindsState and
\* nothing else: the controller is at rest at once, the stop is prepared in
\* the switches and its send deferred by SendDelay; the deferred step that
\* runs next sends one command, with both relays off.
C27_AtLimitFinalizes ==
    [][/\ AtLimitStep
            => (/\ lastOp'.fin = 1
                /\ lastOp'.br = "none"
                /\ context' = [context EXCEPT !.currentPositionState = STOPPED]
                /\ getBlindState(switches', config) = STOPPED
                /\ timers' = timers (+) SetToBag({Timer("final", now + SendDelay)})
                /\ emitted' = <<>>)
       /\ (AfterAtLimitReport /\ TimerStep("final"))
            => (/\ Len(emitted') = 1
                /\ getBlindState(emitted'[1], config) = STOPPED
                /\ ~ Moving(context'))]_vars

\* at rest at the bottom, the device reports its down relay on
C27_DownReportedAtBottom ==
    /\ AfterAtLimitReport
    /\ lastOp.arg = MOVING_DOWN
    /\ ~ Moving(context)
    /\ context.currentTargetPosition = 0
    /\ context.lastPosition = 0
    /\ getBlindState(switches, config) = STOPPED
    /\ BagIn(Timer("final", now + SendDelay), timers)

\* C28: a set request while moving for another target, whose diff comes
\* out as exactly 0, is handled as if diff were positive: the target is the
\* position asked for, targetTimestamp moves by diffTime, the direction
\* stays and no relay command is sent.
C28_ZeroDiffExtends ==
    [][\A pos \in Positions :
          (/\ SetTargetStep(pos)
           /\ Moving(context)
           /\ pos # context.currentTargetPosition
           /\ diffOf(context, config, pos, now) = 0)
          => (/\ context'.currentTargetPosition = pos
              /\ context'.targetTimestamp
                    = context.targetTimestamp + diffTimeOf(context, config, pos)
              /\ context'.currentPositionState = context.currentPositionState
              /\ emitted' = <<>>)]_vars

\* C29: whenever a set request while moving takes the diff > 0 branch,
\* which keeps the direction and sends nothing, the position asked for is
\* not behind the blind: at or above the estimate of that instant when
\* moving up, at or below it when moving down, whatever the margins and
\* the overdrive of the group.
C29_ExtendLiesAhead ==
    [][\A pos \in Positions :
          (/\ SetTargetStep(pos)
           /\ Moving(context)
           /\ lastOp'.br = "extend")
          => IF context.currentPositionState = MOVING_UP
             THEN pos >= actualPosition(context, config, now)
             ELSE pos <= actualPosition(context, config, now)]_vars

\* groups without margins and overdrive whose way up and way down take
\* different times
AsymConfigs ==
    { Config(0, 1, 1000, 2000, 0, 0, 0, "true"),
      Config(0, 1, 1500, 1000, 0, 0, 0, "true") }

AsymInit ==
    /\ config \in AsymConfigs
    /\ \E p \in InitPositions :
          context = [lastPosition |-> p, currentTargetPosition |-> p,
                     currentPositionState |-> STOPPED,
                     startTimestamp |-> 0, targetTimestamp |-> 0]
    /\ switches = AllOff
    /\ timers = EmptyBag
    /\ now = 0
    /\ emitted = <<>>
    /\ finalized = 0
    /\ lastOp = NoOp
    /\ events = 0
    /\ pure = NoPure

AsymSpec == AsymInit /\ [][Next]_vars

\* C30: while moving, targetTimestamp is the time at which the motion in
\* the current direction reaches the current target: without margins and
\* overdrive the position estimated for that time is the target, give or
\* take one for rounding, after reversals too and whatever the times of
\* the way up and the way down.
C30_DeadlineMatchesTarget ==
    (/\ Moving(context)
     /\ config.durationBMU = 0
     /\ config.durationBMD = 0
     /\ config.fullOverdrive = 0)
    => Abs(actualPosition(context, config, context.targetTimestamp)
             - context.currentTargetPosition) <= 1

\* C31: set requests asking only for positions from 0 to 100, lastPosition
\* and currentTargetPosition are integers from 0 to 100 in every state,
\* after reversals and reported stops too.
C31_PositionsInRange ==
    /\ context.lastPosition \in 0..100
    /\ context.currentTargetPosition \in 0..100

(* ------------------ the position estimator on its own ----------------- *)

\* lastPosition values the estimator is given, out of range ones included
EstimatePositions == {-3, 0, 7, 50, 100}

EstimateStarts == {0, 37}

EstimateInit ==
    /\ config \in Configs \cup AsymConfigs
    /\ \E p \in EstimatePositions, d \in {MOVING_UP, MOVING_DOWN, STOPPED},
          st \in EstimateStarts :
          /\ context = [lastPosition |-> p, currentTargetPosition |-> p,
                        currentPositionState |-> d,
                        startTimestamp |-> st, targetTimestamp |-> st]
          /\ now = st
    /\ switches = AllOff
    /\ timers = EmptyBag
    /\ emitted = <<>>
    /\ finalized = 0
    /\ lastOp = NoOp
    /\ events = 0
    /\ pure = [stage |-> "input", d |-> STOPPED, result |-> 0]

\* one call of actualPosition: its body reads the context and the clock
\* and assigns nothing
Estimate ==
    /\ pure.stage = "input"
    /\ pure' = [pure EXCEPT !.stage = "estimated",
                            !.result = actualPosition(context, config, now)]
    /\ UNCHANGED <<context, switches, timers, now, config, emitted, finalized,
                   lastOp, events>>

EstimateTick ==
    /\ now + EstimateStep <= context.startTimestamp + MaxElapsed
    /\ now' = now + EstimateStep
    /\ pure' = [pure EXCEPT !.stage = "input"]
    /\ UNCHANGED <<context, switches, timers, config, emitted, finalized,
                   lastOp, events>>

EstimateNext ==
    \/ Estimate
    \/ EstimateTick

EstimateSpec == EstimateInit /\ [][EstimateNext]_vars

\* r is x2 / (2 * d) rounded to the nearest integer, halves upwards
NearestTo(r, x2, d) == 2 * r * d - d <= x2 /\ x2 < 2 * r * d + d

\* C32: the estimate is a function of the context and the clock only and
\* changes neither: it is lastPosition at rest, and while moving the
\* nearest integer to lastPosition plus (moving up) or minus (moving down)
\* the time since startTimestamp divided by the time one percent takes,
\* which is a hundredth of the travel time of that direction.
C32_EstimateLaw ==
    [][pure'.stage = "estimated"
         => LET elapsed == now - context.startTimestamp
                r == pure'.result
            IN  /\ UNCHANGED <<context, switches, timers, now, emitted>>
                /\ CASE context.currentPositionState = STOPPED ->
                            r = context.lastPosition
                      [] context.currentPositionState = MOVING_UP ->
                            NearestTo(r, 2 * (context.lastPosition * config.durationUp
                                                + 100 * elapsed),
                                      config.durationUp)
                      [] context.currentPositionState = MOVING_DOWN ->
                            NearestTo(r, 2 * (context.lastPosition * config.durationDown
                                                - 100 * elapsed),
                                      config.durationDown)]_vars

\* 15 ms down from 50 at 10 ms per percent: 48.5, estimated as 49
C32_HalfWayDown ==
    /\ pure.stage = "estimated"
    /\ context.currentPositionState = MOVING_DOWN
    /\ config.durationDown = 1000
    /\ context.lastPosition = 50
    /\ now - context.startTimestamp = 15
    /\ pure.result = 49

\* C33: no relay command handed to the command channel, by a set request,
\* a timer callback, a status query or the reconciler, has the up relay and
\* the down relay on together.
C33_NeverBothOn ==
    \A i \in 1..Len(emitted) :
        ~ (emitted[i][config.switchUp] = "on" /\ emitted[i][config.switchDown] = "on")

\* a reported down relay during a move up makes the reconciler send the
\* reversal: down on, up off
C33_ReversalSentOnReport ==
    /\ lastOp.op = "observe"
    /\ lastOp.arg = MOVING_DOWN
    /\ lastOp.br = "revert"
    /\ Len(emitted) = 1
    /\ emitted[1][config.switchDown] = "on"
    /\ emitted[1][config.switchUp] = "off"

\* C34: when a set request has started a new motion between
\* setFinalBlindsState and its deferred step, the deferred step neither
\* writes lastPosition nor takes the new motion's direction away.
C34_FinalizeAtomic ==
    [][(TimerStep("final") /\ Moving(context))
         => (/\ context'.currentPositionState = context.currentPositionState
             /\ context'.lastPosition = context.lastPosition)]_vars

(* ----------------- the commands through the command channel ----------- *)
(* updateDeviceStatus of the WebSocket client sleeps 200 to 400 ms and    *)
(* then sends the payload, whose params.switches is the switches array of *)
(* devicesFromApi itself: what goes out is what the array holds when the  *)
(* pause is over.  pure holds the channel: the commands that wait, a      *)
(* counter that numbers them, the number of the latest stop command sent  *)
(* and the last command sent.  The socket is open throughout.             *)

Pauses == {MinPause, MinPause + PauseSpread - 1}

ChanInit ==
    /\ config \in Configs
    /\ \E p \in InitPositions :
          context = [lastPosition |-> p, currentTargetPosition |-> p,
                     currentPositionState |-> STOPPED,
                     startTimestamp |-> 0, targetTimestamp |-> 0]
    /\ switches = AllOff
    /\ timers = EmptyBag
    /\ now = 0
    /\ emitted = <<>>
    /\ finalized = 0
    /\ lastOp = NoOp
    /\ events = 0
    /\ pure = [stage |-> "channel", pending |-> {}, seq |-> 0, stopSeq |-> 0,
               last |-> <<>>]

\* the handler's effects, and its command, if any, handed to the channel
ChanCommit(r, op, arg, kind) ==
    /\ context' = r.ctx
    /\ switches' = r.sw
    /\ timers' = r.tm
    /\ emitted' = r.out
    /\ finalized' = IF StartsMotion(r) THEN 0 ELSE Min(finalized + r.fin, 2)
    /\ lastOp' = [op |-> op, arg |-> arg, fin |-> r.fin, br |-> r.br, res |-> r.res]
    /\ IF r.out = <<>>
       THEN pure' = pure
       ELSE \E d \in Pauses :
               pure' = [pure EXCEPT
                          !.seq = pure.seq + 1,
                          !.pending = pure.pending \cup
                             {[due |-> now + d, kind |-> kind, seq |-> pure.seq + 1]}]
    /\ UNCHANGED <<config, now>>

ChanSetTarget ==
    /\ events < ChanEvents
    /\ events' = events + 1
    /\ \E pos \in Positions :
          ChanCommit(setTargetPosition(Machine, config, pos, now), "setTarget", pos, "move")

ChanObserve ==
    /\ events < ChanEvents
    /\ events' = events + 1
    /\ \E obs \in Reports :
          ChanCommit(deviceStateListener(Machine, config, obs, now),
                     IF Truthy(config.handle_api_changes) THEN "observe" ELSE "ignored",
                     IF Truthy(config.handle_api_changes)
                     THEN getBlindState(obs, config) ELSE 0,
                     "move")

ChanQueryState ==
    /\ events < ChanEvents
    /\ events' = events + 1
    /\ \E devSw \in Reports :
          ChanCommit(getPositionState(Machine, config, devSw, now),
                     "query", getBlindState(devSw, config), "move")

ChanFireStart ==
    /\ UNCHANGED events
    /\ \E tmr \in Due :
        /\ tmr.kind = "start"
        /\ ChanCommit(startTimeout(Without(tmr), config, now), "start", 0, "move")

ChanFireCheck ==
    /\ UNCHANGED events
    /\ \E tmr \in Due :
        /\ tmr.kind = "check"
        /\ ChanCommit(checkInterval(Without(tmr), config, tmr, now), "check", 0, "move")

ChanFireFinal ==
    /\ UNCHANGED events
    /\ \E tmr \in Due :
        /\ tmr.kind = "final"
        /\ ChanCommit(finalTimeout(Without(tmr), config, now), "final", 0, "stop")

\* the pause of a command is over: the payload is serialised and sent
ChanTransmit ==
    /\ \E c \in pure.pending :
        /\ c.due <= now
        /\ pure' = [pure EXCEPT
                       !.pending = pure.pending \ {c},
                       !.stopSeq = IF c.kind = "stop" /\ c.seq > pure.stopSeq
                                   THEN c.seq ELSE pure.stopSeq,
                       !.last = <<[kind |-> c.kind, seq |-> c.seq, sw |-> switches]>>]
    /\ UNCHANGED <<context, switches, timers, now, config, emitted, finalized,
                   lastOp, events>>

ChanDues == { tmr.due : tmr \in BagToSet(timers) } \cup { c.due : c \in pure.pending }

ChanTick ==
    /\ \A d \in ChanDues : d > now
    /\ now' = IF ChanDues = {} THEN now + IdleStep
              ELSE CHOOSE d \in ChanDues : \A e \in ChanDues : d <= e
    /\ now' <= MaxTime
    /\ UNCHANGED <<context, switches, timers, config, emitted, finalized, lastOp,
                   events, pure>>

ChanNext ==
    \/ ChanSetTarget
    \/ ChanObserve
    \/ ChanQueryState
    \/ ChanFireStart
    \/ ChanFireCheck
    \/ ChanFireFinal
    \/ ChanTransmit
    \/ ChanTick

ChanSpec == ChanInit /\ [][ChanNext]_vars

\* no command waits for its 1 ms timer or in the pause of the channel
NoSendPending ==
    /\ pure.pending = {}
    /\ \A tmr \in BagToSet(timers) : tmr.kind = "check"

\* C35: whenever the controller is at rest and no command waits for its
\* timer or in the pause of the channel, the last command sent to the
\* device has both relays off; and a move command handed over before a
\* stop command is never sent after that stop with a relay still on.
C35_LastCommandStops ==
    pure.last # <<>>
    => /\ (~ Moving(context) /\ NoSendPending)
            => getBlindState(pure.last[1].sw, config) = STOPPED
       /\ (pure.last[1].kind = "move" /\ pure.last[1].seq < pure.stopSeq)
            => getBlindState(pure.last[1].sw, config) = STOPPED

\* C36: building the relay command of a blind writes the entries of the
\* switches array at the up and the down index only: every other relay
\* goes out with the value the array held for it.
C36_OtherRelaysKept ==
    [][pure'.stage = "encoded"
         => \A o \in Outlets \ {config.switchUp, config.switchDown} :
                switches'[o] = switches[o]]_vars

\* a command to move up, built while a relay that is not the blind's is on
C36_ThirdRelayOn ==
    /\ pure.stage = "encoded"
    /\ pure.d = MOVING_UP
    /\ config.switchUp # config.switchDown
    /\ switches[config.switchUp] = "on"
    /\ switches[config.switchDown] = "off"
    /\ \E o \in Outlets \ {config.switchUp, config.switchDown} : switches[o] = "on"

(* ------------- the planner that checks the socket first --------------- *)
(* setBlindTargetPosition and prepareBlindFinalState plan as               *)
(* setTargetPosition and setFinalBlindsState do, serialise the payload at  *)
(* once and test platform.webSocketOpen before they send or arm a timer.   *)
(* pure.open is platform.webSocketOpen; a timer carries the payload that   *)
(* was serialised for it.                                                  *)

SockTimer(kind, due, sw) == [kind |-> kind, due |-> due, sw |-> sw]

\* from rest: the plan is written to the context, then the socket is tested
sockStartMotion(m, cfg, pos, t, open) ==
    LET planned == startMotion(m, cfg, pos, t)
    IN  IF open
        THEN [planned EXCEPT
                 !.tm = m.tm (+) SetToBag({SockTimer("start", t + SendDelay, planned.sw)})]
        ELSE [planned EXCEPT !.tm = m.tm, !.br = "closed"]

\* diff < 0: the reversal is written to the context, then the socket is tested
sockRevertMotion(m, cfg, pos, t, open) ==
    LET planned == revertMotion(m, cfg, pos, t)
    IN  IF open THEN planned
        ELSE [planned EXCEPT !.out = m.out, !.br = "closed"]

setBlindTargetPosition(m, cfg, pos, t, open) ==
    IF m.ctx.currentPositionState # STOPPED
    THEN IF Abs(pos - m.ctx.currentTargetPosition) = 0
         THEN [m EXCEPT !.br = "same"]
         ELSE IF diffOf(m.ctx, cfg, pos, t) > 0
         THEN extendMotion(m, cfg, pos, t)
         ELSE IF diffOf(m.ctx, cfg, pos, t) < 0
         THEN sockRevertMotion(m, cfg, pos, t, open)
         ELSE [m EXCEPT !.br = "zero"]
    ELSE IF m.ctx.lastPosition = pos
    THEN [m EXCEPT !.br = "rest"]
    ELSE sockStartMotion(m, cfg, pos, t, open)

prepareBlindFinalState(m, cfg, t, open) ==
    LET sw1 == prepareBlindSwitchesPayload(m.sw, cfg, STOPPED)
        stopped == [m EXCEPT !.ctx = [m.ctx EXCEPT !.currentPositionState = STOPPED],
                             !.sw = sw1,
                             !.fin = m.fin + 1]
    IN  IF open
        THEN [stopped EXCEPT
                 !.tm = m.tm (+) SetToBag({SockTimer("final", t + SendDelay, sw1)})]
        ELSE stopped

sockStartTimeout(m, tmr, t) ==
    [m EXCEPT !.out = Append(m.out, tmr.sw),
              !.tm = m.tm (+) SetToBag({Timer("check", t + CheckPeriod)})]

sockCheckInterval(m, cfg, tmr, t, open) ==
    IF t >= m.ctx.targetTimestamp
    THEN prepareBlindFinalState(m, cfg, t, open)
    ELSE [m EXCEPT !.tm = m.tm (+) SetToBag({Timer("check", tmr.due + CheckPeriod)})]

sockFinalTimeout(m, tmr) ==
    [m EXCEPT !.out = Append(m.out, tmr.sw),
              !.ctx = [m.ctx EXCEPT
                         !.currentPositionState = STOPPED,
                         !.lastPosition = m.ctx.currentTargetPosition]]

SockInit ==
    /\ config \in { c \in Configs : Truthy(c.handle_api_changes) }
    /\ \E p \in InitPositions :
          context = [lastPosition |-> p, currentTargetPosition |-> p,
                     currentPositionState |-> STOPPED,
                     startTimestamp |-> 0, targetTimestamp |-> 0]
    /\ switches = AllOff
    /\ timers = EmptyBag
    /\ now = 0
    /\ emitted = <<>>
    /\ finalized = 0
    /\ lastOp = NoOp
    /\ events = 0
    /\ pure = [stage |-> "socket", open |-> FALSE]

SockSetTarget ==
    /\ events < SockEvents
    /\ events' = events + 1
    /\ \E pos \in Positions :
        /\ Commit(setBlindTargetPosition(Machine, config, pos, now, pure.open),
                  "setTarget", pos)
        /\ UNCHANGED now

\* ws.onopen
SockOpens ==
    /\ ~ pure.open
    /\ pure' = [pure EXCEPT !.open = TRUE]
    /\ UNCHANGED <<context, switches, timers, now, config, emitted, finalized,
                   lastOp, events>>

\* ws.onclose
SockCloses ==
    /\ pure.open
    /\ pure' = [pure EXCEPT !.open = FALSE]
    /\ UNCHANGED <<context, switches, timers, now, config, emitted, finalized,
                   lastOp, events>>

SockFireStart ==
    /\ UNCHANGED events
    /\ \E tmr \in Due :
        /\ tmr.kind = "start"
        /\ Commit(sockStartTimeout(Without(tmr), tmr, now), "start", 0)
        /\ UNCHANGED now

SockFireCheck ==
    /\ UNCHANGED events
    /\ \E tmr \in Due :
        /\ tmr.kind = "check"
        /\ Commit(sockCheckInterval(Without(tmr), config, tmr, now, pure.open),
                  "check", 0)
        /\ UNCHANGED now

SockFireFinal ==
    /\ UNCHANGED events
    /\ \E tmr \in Due :
        /\ tmr.kind = "final"
        /\ Commit(sockFinalTimeout(Without(tmr), tmr), "final", 0)
        /\ UNCHANGED now

SockNext ==
    \/ SockSetTarget
    \/ SockOpens
    \/ SockCloses
    \/ SockFireStart
    \/ SockFireCheck
    \/ SockFireFinal
    \/ Tick

SockSpec == SockInit /\ [][SockNext]_vars

\* C37: a set request at rest that is turned down because the socket is
\* closed leaves the context as it was: the blind stays at rest, and so is
\* not left moving without a completion check.
C37_RejectedLeavesIdle ==
    [][(/\ ExternalStep("setTarget")
        /\ ~ Moving(context)
        /\ lastOp'.br = "closed")
         => (/\ context' = context
             /\ ~ Moving(context'))]_vars

(* ------------------------ the WebSocket client ------------------------ *)
(* pure holds the client: conn is the state of the connection of the      *)
(* current instance, heard whether the client's listeners are on it,      *)
(* login whether the login request awaits its response, pingRef whether   *)
(* this.pingInterval holds an interval, pings the ping intervals alive,   *)
(* reconnects the reconnect timers pending.  instance.terminate() is a    *)
(* call into the library: it may close the connection or throw.           *)

CLOSE_NORMAL == 1000
CLOSE_ABNORMAL == 1006

\* after the constructor and the first open(url)
WscInit ==
    /\ config \in {Config(0, 1, 1000, 1000, 0, 0, 0, "true")}
    /\ context = [lastPosition |-> 0, currentTargetPosition |-> 0,
                  currentPositionState |-> STOPPED,
                  startTimestamp |-> 0, targetTimestamp |-> 0]
    /\ switches = AllOff
    /\ timers = EmptyBag
    /\ now = 0
    /\ emitted = <<>>
    /\ finalized = 0
    /\ lastOp = NoOp
    /\ events = 0
    /\ pure = [stage |-> "wsc", conn |-> "connecting", heard |-> TRUE,
               socketOpen |-> FALSE, login |-> FALSE, pingRef |-> FALSE,
               pings |-> 0, pendingReconnect |-> FALSE, reconnects |-> 0]

WscFrame == UNCHANGED <<context, switches, timers, now, config, emitted, finalized, lastOp>>

reconnect(c) ==
    IF c.pendingReconnect THEN c
    ELSE [c EXCEPT !.pendingReconnect = TRUE,
                   !.heard = FALSE,
                   !.reconnects = c.reconnects + 1]

\* the listener of onClose; e is the close code
onCloseListener(c, e) ==
    LET c1 == IF e = CLOSE_NORMAL THEN c ELSE reconnect(c)
    IN  [c1 EXCEPT !.socketOpen = FALSE,
                   !.pingRef = FALSE,
                   !.pings = IF c1.pingRef THEN c1.pings - 1 ELSE c1.pings]

\* the connection opens: onOpen runs onopen(), which sends the login request
WscConnected ==
    /\ pure.stage = "wsc"
    /\ pure.conn = "connecting"
    /\ pure' = IF pure.heard
               THEN [pure EXCEPT !.conn = "open", !.socketOpen = TRUE, !.login = TRUE]
               ELSE [pure EXCEPT !.conn = "open"]
    /\ UNCHANGED events
    /\ WscFrame

\* the login response, with or without a heartbeat configuration
WscLoginResponse ==
    /\ pure.stage = "wsc"
    /\ pure.conn = "open"
    /\ pure.login
    /\ \E hb \in BOOLEAN :
          pure' = IF hb
                  THEN [pure EXCEPT !.login = FALSE, !.pingRef = TRUE,
                                    !.pings = pure.pings + 1]
                  ELSE [pure EXCEPT !.login = FALSE]
    /\ UNCHANGED events
    /\ WscFrame

\* the connection closes, or fails to open with another error than
\* ECONNREFUSED
WscClosed ==
    /\ pure.stage = "wsc"
    /\ pure.conn \in {"connecting", "open"}
    /\ \E e \in {CLOSE_NORMAL, CLOSE_ABNORMAL} :
          LET c == [pure EXCEPT !.conn = "closed", !.login = FALSE]
          IN  pure' = IF pure.heard THEN onCloseListener(c, e) ELSE c
    /\ UNCHANGED events
    /\ WscFrame

\* the connection is refused: the listener of onError reconnects
WscRefused ==
    /\ pure.stage = "wsc"
    /\ pure.conn = "connecting"
    /\ LET c == [pure EXCEPT !.conn = "closed"]
       IN  pure' = IF pure.heard THEN reconnect(c) ELSE c
    /\ UNCHANGED events
    /\ WscFrame

\* the timer of reconnect(): open(url) makes a new instance
WscReconnect ==
    /\ pure.stage = "wsc"
    /\ pure.reconnects > 0
    /\ pure' = [pure EXCEPT !.reconnects = pure.reconnects - 1,
                            !.pendingReconnect = FALSE,
                            !.conn = "connecting",
                            !.heard = TRUE,
                            !.login = FALSE]
    /\ UNCHANGED events
    /\ WscFrame

\* a login event while isSocketOpen(): terminate, onclose, reconnect
WscRelogin ==
    /\ pure.stage = "wsc"
    /\ events < WscEvents
    /\ events' = events + 1
    /\ pure.socketOpen
    /\ \E terminated \in BOOLEAN :
          pure' = IF terminated
                  THEN reconnect([pure EXCEPT !.conn = "closed", !.login = FALSE])
                  ELSE pure
    /\ WscFrame

WscNext ==
    \/ WscConnected
    \/ WscLoginResponse
    \/ WscClosed
    \/ WscRefused
    \/ WscReconnect
    \/ WscRelogin

WscSpec == WscInit /\ [][WscNext]_vars

\* C38: socketOpen is true only while the connection is open; while it is
\* not open, after a close, a refused connection or a login event handled
\* with an open socket, no ping interval is alive; and at most one
\* reconnect timer is pending.
C38_SocketOpenTracksConnection ==
    /\ pure.socketOpen => pure.conn = "open"
    /\ pure.conn # "open" => (pure.pings = 0 /\ ~ pure.pingRef)
    /\ pure.reconnects <= 1

(* ------------------------------ the cache ----------------------------- *)
(* pure holds the cache: cacheMap says which keys hold a value, timerMap  *)
(* the id of the timer last armed for a key (0: none), pending the timers *)
(* not yet run or cleared.  setAt, dur, kind and again are history: when  *)
(* and for how long a key was last set, the last thing that happened to   *)
(* it, and whether it was set again while it held a value.                *)

CacheKeys == {1, 2}

CacheDurations == {DefaultCacheDuration, ShortDuration}

CacheInit ==
    /\ config \in {Config(0, 1, 1000, 1000, 0, 0, 0, "true")}
    /\ context = [lastPosition |-> 0, currentTargetPosition |-> 0,
                  currentPositionState |-> STOPPED,
                  startTimestamp |-> 0, targetTimestamp |-> 0]
    /\ switches = AllOff
    /\ timers = EmptyBag
    /\ now = 0
    /\ emitted = <<>>
    /\ finalized = 0
    /\ lastOp = NoOp
    /\ events = 0
    /\ pure = [stage |-> "cache",
               cacheMap |-> [k \in CacheKeys |-> FALSE],
               timerMap |-> [k \in CacheKeys |-> 0],
               pending |-> {},
               nextId |-> 1,
               setAt |-> [k \in CacheKeys |-> 0],
               dur |-> [k \in CacheKeys |-> 0],
               kind |-> [k \in CacheKeys |-> "none"],
               again |-> [k \in CacheKeys |-> FALSE]]

CacheFrame == UNCHANGED <<context, switches, timers, config, emitted, finalized>>

\* mutant: the timer of the key is looked up and left to run
clearTimer_Keeps(c, key) == c

\* clearTimeout of the timer recorded for the key, if any
clearTimer(c, key) ==
    IF c.timerMap[key] # 0
    THEN [c EXCEPT !.pending = { tmr \in c.pending : tmr.id # c.timerMap[key] }]
    ELSE c

cacheSet(c, key, cacheDuration, t) ==
    LET c1 == clearTimer(c, key)
    IN  [c1 EXCEPT !.cacheMap[key] = TRUE,
                   !.pending = c1.pending \cup
                                 {[key |-> key, id |-> c.nextId, due |-> t + cacheDuration]},
                   !.timerMap[key] = c.nextId,
                   !.nextId = c.nextId + 1,
                   !.setAt[key] = t,
                   !.dur[key] = cacheDuration,
                   !.kind[key] = "set",
                   !.again[key] = c.cacheMap[key]]

cacheDelete(c, key) ==
    LET c1 == [c EXCEPT !.cacheMap[key] = FALSE, !.kind[key] = "delete"]
    IN  clearTimer(c1, key)

\* the callback of the timer armed by set
cacheTimeout(c, tmr) ==
    [c EXCEPT !.pending = c.pending \ {tmr},
              !.cacheMap[tmr.key] = FALSE,
              !.kind[tmr.key] = IF c.cacheMap[tmr.key] THEN "expired" ELSE c.kind[tmr.key]]

CacheSet ==
    /\ pure.stage = "cache"
    /\ events < CacheOps
    /\ events' = events + 1
    /\ \E key \in CacheKeys, d \in CacheDurations :
          /\ pure' = cacheSet(pure, key, d, now)
          /\ lastOp' = [NoOp EXCEPT !.op = "set", !.arg = key]
    /\ UNCHANGED now
    /\ CacheFrame

CacheDelete ==
    /\ pure.stage = "cache"
    /\ events < CacheOps
    /\ events' = events + 1
    /\ \E key \in CacheKeys :
          /\ pure' = cacheDelete(pure, key)
          /\ lastOp' = [NoOp EXCEPT !.op = "delete", !.arg = key]
    /\ UNCHANGED now
    /\ CacheFrame

\* a timer runs: fin tells whether the 'expiry' event was emitted
CacheExpire ==
    /\ pure.stage = "cache"
    /\ \E tmr \in pure.pending :
          /\ tmr.due <= now
          /\ pure' = cacheTimeout(pure, tmr)
          /\ lastOp' = [NoOp EXCEPT !.op = "expire", !.arg = tmr.key,
                                    !.fin = IF pure.cacheMap[tmr.key] THEN 1 ELSE 0]
    /\ UNCHANGED <<now, events>>
    /\ CacheFrame

CacheTick ==
    /\ pure.stage = "cache"
    /\ \A tmr \in pure.pending : tmr.due > now
    /\ LET dues == { tmr.due : tmr \in pure.pending } \cup {now + CacheStep}
       IN  now' = CHOOSE d \in dues : \A e \in dues : d <= e
    /\ now' <= MaxCacheTime
    /\ UNCHANGED <<pure, lastOp, events>>
    /\ CacheFrame

CacheNext ==
    \/ CacheSet
    \/ CacheDelete
    \/ CacheExpire
    \/ CacheTick

CacheSpec == CacheInit /\ [][CacheNext]_vars

\* C39: a set leaves one timer for its key, due its cacheDuration later,
\* whatever was armed before; an entry is removed by a timer, and an
\* 'expiry' event emitted for it, only when the last thing done to the key
\* was a set and exactly its cacheDuration has passed since; so no event
\* follows a delete.
C39_ExpiryAfterLastSet ==
    [][\A key \in CacheKeys :
          /\ (lastOp'.op = "set" /\ lastOp'.arg = key /\ events' = events + 1)
               => \E tmr \in pure'.pending :
                     /\ tmr.due = now + pure'.dur[key]
                     /\ { other \in pure'.pending : other.key = key } = {tmr}
          /\ (/\ lastOp'.op = "expire" /\ lastOp'.arg = key
              /\ pure'.pending # pure.pending
              /\ lastOp'.fin = 1 \/ (pure.cacheMap[key] /\ ~ pure'.cacheMap[key]))
               => (/\ pure.kind[key] = "set"
                   /\ now = pure.setAt[key] + pure.dur[key]
                   /\ lastOp'.fin = 1
                   /\ ~ pure'.cacheMap[key])]_vars

\* a key set again before it expired has just expired, its cacheDuration
\* after the second set
C39_ExpiredAfterSecondSet ==
    /\ pure.stage = "cache"
    /\ lastOp.op = "expire"
    /\ lastOp.fin = 1
    /\ pure.again[lastOp.arg]
    /\ pure.kind[lastOp.arg] = "expired"
    /\ pure.setAt[lastOp.arg] > 0
    /\ now = pure.setAt[lastOp.arg] + pure.dur[lastOp.arg]

====
